---- MODULE Spec2Model ----
(***************************************************************************)
(* Model of the DevIntel real-time server (src/server.py): the             *)
(* ConnectionManager registry, the RealtimeEventProcessor and the          *)
(* coroutine of the /ws endpoint, one asyncio task per connection; and of  *)
(* the ingest pipeline behind it (src/devintel.py): ingest_event,          *)
(* store_event, analyze_error and the similarity query, the solution and   *)
(* outcome records, the pattern graph and the changelog entry.             *)
(*                                                                         *)
(* asyncio is cooperative: a task runs without interleaving from one       *)
(* `await` that really suspends to the next.  Every action below is the    *)
(* completion of one such await followed by everything the task does until *)
(* it reaches its next await (operator Run).                               *)
(***************************************************************************)
EXTENDS Integers, FiniteSets, Sequences, TLC

\* ---------------------------------------------------------------- bounds
MaxClients == 2                      \* connections accepted
Clients == 1..MaxClients             \* connection ids: the k-th uuid4() drawn is k
SessionIds == {"s1", "s2"}           \* session ids a producer may send in init
None == "None"                       \* Python None (any falsy sessionId)
EventKinds == {"log", "error", "bogus"}   \* event 'type': not error, error, not an EventType
MaxMsgs == 2                         \* inbound messages handled, all connections together
MaxBulk == 2                         \* events in one bulk message

VARIABLES
    active_connections,     \* ConnectionManager.active_connections : id -> socket
    session_connections,    \* ConnectionManager.session_connections : session id -> set of ids
    connection_metadata,    \* ConnectionManager.connection_metadata : id -> metadata
    task,                   \* per connection: the websocket_endpoint coroutine
    received,               \* inbound messages received so far, all connections
    persisted,              \* per connection: the events handed to persist, in order
    removed_by_send,        \* ids removed from the registry by a failed send
    obs,                    \* what the last step did (calls it completed)
    clock,                  \* datetime.now(), as a count of clock readings
    loop_task,              \* the callers inside a synchronous call (it holds the event loop)
    calls,                  \* per producer: its ingest_event coroutine
    stream,                 \* Redis stream devintel:stream : the entries appended
    dev_events,             \* PostgreSQL table dev_events : id -> row
    graph,                  \* Neo4j : Event, Session and Solution nodes and their edges
    solutions,              \* PostgreSQL table solutions : id -> row
    finished,               \* the ingest_event calls the last step finished
    similar,                \* what the last _find_similar_errors query returned
    op                      \* the last call made on the stores directly, and its result

servervars == <<active_connections, session_connections, connection_metadata,
                task, received, persisted, removed_by_send, obs>>

apivars == <<clock, loop_task, calls, stream, dev_events, graph, solutions,
             finished, similar, op>>

vars == <<active_connections, session_connections, connection_metadata,
          task, received, persisted, removed_by_send, obs,
          clock, loop_task, calls, stream, dev_events, graph, solutions,
          finished, similar, op>>

\* ------------------------------------------------------- dict operations
EmptyDict == [x \in {} |-> None]

DictSet(d, k, v) == [x \in (DOMAIN d) \cup {k} |-> IF x = k THEN v ELSE d[x]]

DictDel(d, k) == [x \in (DOMAIN d) \ {k} |-> d[x]]

\* dict.get(k, {}).get('session_id')
MetaSession(md, k) == IF k \in DOMAIN md THEN md[k].session_id ELSE None

\* ------------------------------------------------- ConnectionManager
\* reg = [ac |-> active_connections, sc |-> session_connections,
\*        md |-> connection_metadata]
ConnectionManager == [ac |-> EmptyDict, sc |-> EmptyDict, md |-> EmptyDict]

connect(reg, client_id) ==
    [reg EXCEPT !.ac = DictSet(@, client_id, client_id)]

\* disconnect without `del self.active_connections[client_id]`
disconnect_keeps_handle(reg, client_id) ==
    IF client_id \in DOMAIN reg.ac
    THEN LET session_id == MetaSession(reg.md, client_id)
         IN  [reg EXCEPT
                !.sc = IF session_id # None /\ session_id \in DOMAIN @
                       THEN [@ EXCEPT ![session_id] = @ \ {client_id}]
                       ELSE @,
                !.md = DictDel(@, client_id)]
    ELSE reg

\* disconnect without `if client_id in self.active_connections` (pop instead of del)
disconnect_unguarded(reg, client_id) ==
    LET session_id == MetaSession(reg.md, client_id)
    IN  [reg EXCEPT
           !.ac = DictDel(@, client_id),
           !.sc = IF session_id # None /\ session_id \in DOMAIN @
                  THEN [@ EXCEPT ![session_id] = @ \ {client_id}]
                  ELSE @,
           !.md = DictDel(@, client_id)]

\* disconnect with `self.session_connections[session_id].clear()` for discard
disconnect_clears_session(reg, client_id) ==
    IF client_id \in DOMAIN reg.ac
    THEN LET session_id == MetaSession(reg.md, client_id)
         IN  [reg EXCEPT
                !.ac = DictDel(@, client_id),
                !.sc = IF session_id # None /\ session_id \in DOMAIN @
                       THEN [@ EXCEPT ![session_id] = {}]
                       ELSE @,
                !.md = DictDel(@, client_id)]
    ELSE reg

disconnect(reg, client_id) ==
    IF client_id \in DOMAIN reg.ac
    THEN LET session_id == MetaSession(reg.md, client_id)
         IN  [reg EXCEPT
                !.ac = DictDel(@, client_id),
                !.sc = IF session_id # None /\ session_id \in DOMAIN @
                       THEN [@ EXCEPT ![session_id] = @ \ {client_id}]
                       ELSE @,
                !.md = DictDel(@, client_id)]
    ELSE reg

set_client_metadata(reg, client_id, metadata) ==
    LET session_id == metadata.session_id
    IN  [reg EXCEPT
           !.md = DictSet(@, client_id, metadata),
           !.sc = IF session_id # None
                  THEN DictSet(@, session_id,
                               (IF session_id \in DOMAIN @ THEN @[session_id] ELSE {})
                                  \cup {client_id})
                  ELSE @]

\* broadcast_to_session without `if session_id in self.session_connections`:
\* indexing the defaultdict makes the entry
session_members_indexed(reg, session_id) ==
    LET sc == IF session_id \in DOMAIN reg.sc THEN reg.sc
              ELSE DictSet(reg.sc, session_id, {})
    IN  [reg |-> [reg EXCEPT !.sc = sc], found |-> TRUE, members |-> sc[session_id]]

\* broadcast_to_session: `if session_id in self.session_connections:` and the
\* set `self.session_connections[session_id]` it then iterates
session_members(reg, session_id) ==
    IF session_id \in DOMAIN reg.sc
    THEN [reg |-> reg, found |-> TRUE, members |-> reg.sc[session_id]]
    ELSE [reg |-> reg, found |-> FALSE, members |-> {}]

\* the sessions whose membership set holds client_id
SessionsOf(reg, client_id) == {s \in DOMAIN reg.sc : client_id \in reg.sc[s]}

\* ------------------------------------------------------ coroutine state
\* position of an iteration over a membership set: the size the set had
\* when the iterator was made, the members already yielded, and the
\* `disconnected` list of broadcast_to_session
NoIter == [si_used |-> 0, visited |-> {}, disconnected |-> {}]

\* bookkeeping of the broadcast a task is in (not program state)
NoBc == [known |-> FALSE, snapshot |-> {}, delivered |-> {}, failed |-> {},
         sync |-> TRUE, before |-> ConnectionManager]

\* bookkeeping of the event a task is in (not program state): the members of
\* the session when process_event started, the broadcasts it began, the
\* event_processed and error messages delivered, and whether an earlier event
\* of the same list has failed
NoEv == [members |-> {}, sent |-> <<>>, terminal |-> {}, failed |-> FALSE]

NewTask == [pc |-> "accept", ctx |-> "none", session_id |-> None,
            it |-> NoIter, target |-> None, n |-> 0, pos |-> 0, kind |-> "none",
            msg |-> 0, bc |-> NoBc, ev |-> NoEv]

NoObs == [bc |-> {}, disc |-> {}, conn |-> {}, cd |-> {}, recv |-> {}, init |-> {},
          msg |-> {}, ids |-> {}, ev |-> {}, mon |-> {}]

\* the awaits at which a task is suspended
Suspended == {"accept", "receive", "send", "ingest", "patterns", "done",
              "monitor_send", "monitor_sleep"}

BroadcastKinds == {"solution", "event_processed", "error", "direct"}

\* the state a task works on
Cur == [reg |-> [ac |-> active_connections, sc |-> session_connections,
                 md |-> connection_metadata],
        task |-> task, removed |-> removed_by_send, obs |-> NoObs]

Commit(st) ==
    /\ active_connections' = st.reg.ac
    /\ session_connections' = st.reg.sc
    /\ connection_metadata' = st.reg.md
    /\ task' = st.task
    /\ removed_by_send' = st.removed
    /\ obs' = st.obs

\* a call of manager.disconnect(client_id), recorded
Disconnected(st, client_id, cause, raised) ==
    LET after == disconnect(st.reg, client_id)
    IN  [st EXCEPT !.reg = after,
                   !.obs.disc = @ \cup {[client |-> client_id, cause |-> cause,
                                         live |-> client_id \in DOMAIN st.reg.ac,
                                         before |-> st.reg, after |-> after,
                                         raised |-> raised]}]

\* back to `data = await websocket.receive_text()`
ToReceive(st, c) ==
    [st EXCEPT !.task[c] = [NewTask EXCEPT !.pc = "receive"]]

\* except WebSocketDisconnect / except Exception of websocket_endpoint
EndpointExcept(st, c) ==
    LET st1 == Disconnected(st, c, "task", FALSE)
    IN  [st1 EXCEPT !.task[c] = [NewTask EXCEPT !.pc = "done"]]

\* send_personal_message once send_text has raised: does the exception
\* leave send_personal_message?
send_text_raised_propagates == FALSE

\* the except branch of send_personal_message for client_id
send_text_raised(st, client_id) ==
    LET st1 == Disconnected(st, client_id, "send", send_text_raised_propagates)
    IN  [st1 EXCEPT
           !.removed = @ \cup (IF client_id \in DOMAIN st.reg.ac
                               THEN {client_id} ELSE {})]

\* `for event in reversed(events)`
bulk_pick_reversed(n, pos) == n - pos

\* the index in `events` (of n events) of the event that `for event in events`
\* of process_bulk_events handles after pos events have been handled
bulk_pick(n, pos) == pos + 1

\* the record of a finished broadcast_to_session call: the membership when
\* it started, the members it called send_personal_message for, those whose
\* send_text returned (delivered) and raised (failed), the members that were
\* there from start to end with a live handle, and the failed members the
\* registry still holds; for a call that never awaited, the registry before
\* and after it
BcDone(st, c, result) ==
    LET t == st.task[c]
        members == IF t.bc.known THEN st.reg.sc[t.session_id] ELSE {}
    IN  [known |-> t.bc.known, snapshot |-> t.bc.snapshot,
         attempted |-> t.it.visited,
         delivered |-> t.bc.delivered, failed |-> t.bc.failed,
         stayed |-> t.bc.snapshot \cap members \cap DOMAIN st.reg.ac,
         residue |-> t.bc.failed \cap (members \cup DOMAIN st.reg.ac),
         sync |-> t.bc.sync, before |-> t.bc.before,
         after |-> IF t.bc.sync THEN st.reg ELSE ConnectionManager,
         result |-> result]

\* the record of a process_event call that has ended, by returning or by
\* raising: the event's type and place in its list, the broadcasts begun, the
\* terminal messages delivered, the members of the session that were there
\* from start to end with a live handle, and whether the connection of the
\* task has its handle
EvDone(st, c, result) ==
    LET t == st.task[c]
        s == t.session_id
        members == IF s \in DOMAIN st.reg.sc THEN st.reg.sc[s] ELSE {}
    IN  [st EXCEPT !.obs.ev = @ \cup
            {[client |-> c, type |-> t.kind, pos |-> t.pos, n |-> t.n,
              earlier_failed |-> t.ev.failed, sent |-> t.ev.sent,
              terminal |-> t.ev.terminal,
              stayed |-> t.ev.members \cap members \cap DOMAIN st.reg.ac,
              live |-> c \in DOMAIN st.reg.ac,
              result |-> result]}]

RECURSIVE DisconnectAll(_, _)
DisconnectAll(st, S) ==
    IF S = {} THEN st
    ELSE LET x == CHOOSE x \in S : TRUE
         IN  DisconnectAll(Disconnected(st, x, "broadcast", FALSE), S \ {x})

\* `for client_id in self.session_connections[session_id]` yields client_id:
\* await self.send_personal_message(message, client_id)
Yield(st, c, client_id) ==
    IF client_id \in DOMAIN st.reg.ac
    THEN \* await self.active_connections[client_id].send_text(message)
         [st EXCEPT !.task[c].it.visited = @ \cup {client_id},
                    !.task[c].bc.sync = FALSE,
                    !.task[c].bc.before = ConnectionManager,
                    !.task[c].target = client_id,
                    !.task[c].pc = "send"]
    ELSE \* if client_id in self.active_connections: is false
         [st EXCEPT !.task[c].it.visited = @ \cup {client_id}]

\* one synchronous step of task c, from a position that is not an await
MicroStep(st, c) ==
    LET t == st.task[c]
        s == t.session_id
    IN
    CASE t.pc = "ev_next" ->
           \* process_event: EventType(...) raises ValueError for an unknown type
           IF t.kind = "bogus"
           THEN [st EXCEPT !.task[c].ctx = "error", !.task[c].pc = "bc_start"]
           ELSE [st EXCEPT !.task[c].pc = "ingest"]
      [] t.pc = "bc_start" ->
           \* broadcast_to_session: if session_id in self.session_connections
           LET m == session_members(st.reg, s)
           IN  IF m.found
               THEN [st EXCEPT
                       !.reg = m.reg,
                       !.task[c].ev.sent = IF t.ctx = "direct" THEN @ ELSE Append(@, t.ctx),
                       !.task[c].it = [NoIter EXCEPT !.si_used = Cardinality(m.members)],
                       !.task[c].bc = [NoBc EXCEPT !.known = TRUE,
                                                   !.snapshot = m.members,
                                                   !.before = st.reg],
                       !.task[c].pc = "bc_next"]
               ELSE [st EXCEPT
                       !.reg = m.reg,
                       !.task[c].ev.sent = IF t.ctx = "direct" THEN @ ELSE Append(@, t.ctx),
                       !.task[c].bc = [NoBc EXCEPT !.before = st.reg],
                       !.task[c].pc = "bc_ret"]
      [] t.pc = "bc_next" ->
           \* for client_id in self.session_connections[session_id]
           IF Cardinality(st.reg.sc[s]) # t.it.si_used
           THEN \* RuntimeError: Set changed size during iteration
                [st EXCEPT !.task[c].pc = "bc_raise"]
           ELSE \* StopIteration (a member left is yielded by MicroSteps)
                [st EXCEPT !.task[c].pc = "bc_cleanup"]
      [] t.pc = "bc_cleanup" ->
           \* for client_id in disconnected: self.disconnect(client_id)
           LET st1 == DisconnectAll(st, t.it.disconnected)
           IN  [st1 EXCEPT !.task[c].pc = "bc_ret"]
      [] t.pc = "bc_ret" ->
           LET st1 == [st EXCEPT !.obs.bc = @ \cup {BcDone(st, c, "returned")},
                                 !.task[c].bc = NoBc, !.task[c].it = NoIter]
           IN  IF t.ctx = "direct"
               THEN \* called on the manager itself: back in the caller
                    ToReceive(st1, c)
               ELSE IF t.ctx = "solution"
               THEN [st1 EXCEPT !.task[c].ctx = "event_processed",
                                !.task[c].pc = "bc_start"]
               ELSE \* process_event returns
                    [EvDone(st1, c, "returned") EXCEPT
                        !.task[c].ctx = "none", !.task[c].pc = "ev_done"]
      [] t.pc = "bc_raise" ->
           LET st1 == [st EXCEPT !.obs.bc = @ \cup {BcDone(st, c, "raised")},
                                 !.task[c].bc = NoBc, !.task[c].it = NoIter]
           IN  IF t.ctx = "direct"
               THEN \* called on the manager itself: the caller gets the error
                    ToReceive(st1, c)
               ELSE IF t.ctx = "error"
               THEN \* raised inside the except handler of process_event
                    EndpointExcept(EvDone(st1, c, "raised"), c)
               ELSE \* except Exception of process_event
                    [st1 EXCEPT !.task[c].ctx = "error", !.task[c].pc = "bc_start"]
      [] t.pc = "ev_done" ->
           IF t.pos + 1 < t.n
           THEN [st EXCEPT !.task[c].pos = @ + 1, !.task[c].kind = "none",
                           !.task[c].ev.failed =
                               @ \/ \E i \in DOMAIN t.ev.sent : t.ev.sent[i] = "error",
                           !.task[c].pc = "ev_next"]
           ELSE ToReceive(st, c)

\* the members the iterator of task c can yield next: the order of a set
\* is the order of its hash table, any member not yet yielded can be next
Candidates(st, c) ==
    LET t == st.task[c]
    IN  IF t.pc = "bc_next"
           /\ Cardinality(st.reg.sc[t.session_id]) = t.it.si_used
        THEN st.reg.sc[t.session_id] \ t.it.visited
        ELSE {}

\* The 'type' of an event is data of the message; the program reads it when
\* process_event starts on the event, and it is drawn then.
MicroSteps(st, c) ==
    IF Candidates(st, c) # {}
    THEN {Yield(st, c, client_id) : client_id \in Candidates(st, c)}
    ELSE IF st.task[c].pc = "ev_next" /\ st.task[c].kind = "none"
    THEN LET s == st.task[c].session_id
             members == IF s \in DOMAIN st.reg.sc THEN st.reg.sc[s] ELSE {}
         IN  {[st EXCEPT !.task[c].kind = k,
                         !.task[c].ev = [NoEv EXCEPT !.members = members,
                                                     !.failed = st.task[c].ev.failed]] :
              k \in EventKinds}
    ELSE {MicroStep(st, c)}

\* task c runs until it is suspended in an await
RECURSIVE Run(_, _)
Run(st, c) ==
    IF st.task[c].pc \in Suspended THEN {st}
    ELSE UNION {Run(st1, c) : st1 \in MicroSteps(st, c)}

\* what task c does when the send_text it awaits has returned (ok) or raised
AfterSend(st, c, ok) ==
    LET t == st.task[c]
        x == t.target
        st1 == IF ok THEN st ELSE send_text_raised(st, x)
        raised == (~ok) /\ send_text_raised_propagates
    IN  IF t.ctx \in BroadcastKinds
        THEN \* broadcast_to_session: try: await send_personal_message / except: append
             [st1 EXCEPT !.task[c].bc.delivered = IF ok THEN @ \cup {x} ELSE @,
                         !.task[c].ev.terminal =
                             IF ok /\ t.ctx \in {"event_processed", "error"}
                             THEN @ \cup {<<x, t.ctx>>} ELSE @,
                         !.task[c].bc.failed = IF ok THEN @ ELSE @ \cup {x},
                         !.task[c].it.disconnected = IF raised THEN @ \cup {x} ELSE @,
                         !.task[c].target = None,
                         !.task[c].pc = "bc_next"]
        ELSE \* init_ack, query_result: sent from websocket_endpoint itself
             IF raised THEN EndpointExcept(st1, c) ELSE ToReceive(st1, c)

\* await manager.send_personal_message(message, c) called by websocket_endpoint
SendPersonal(st, c, kind) ==
    IF c \in DOMAIN st.reg.ac
    THEN [st EXCEPT !.task[c].ctx = kind, !.task[c].target = c, !.task[c].pc = "send"]
    ELSE ToReceive(st, c)

\* send_text on the socket of x can return while the endpoint of x has not
\* returned; it can raise at any time (the peer is gone, the transport fails)
SendCanReturn(x) == task[x].pc # "done"

\* receive_text of task c returns a message, the (received + 1)-th to arrive
MayReceive(c) == task[c].pc = "receive" /\ received < MaxMsgs

Received(st, c) == [st EXCEPT !.task[c].msg = received + 1, !.obs.recv = {c}]

\* an event, bulk or query message of connection c, read with the session id
\* its metadata gives
Message(st, c, type, session_id) ==
    [Received(st, c) EXCEPT
        !.obs.msg = {[client |-> c, type |-> type, session_id |-> session_id,
                      before |-> st.reg]}]

\* `if session_id:` taken for every connection
bound_any(session_id) == TRUE

\* session_id = manager.connection_metadata.get(client_id, {}).get('session_id')
\* followed by `if session_id:`
bound(session_id) == session_id # None


\* ------------------------------------------------------------ DevIntelAPI
\* The ingest pipeline of src/devintel.py: DevIntelAPI.ingest_event,
\* StorageBackend.store_event and DevIntelligence.analyze_error, one coroutine
\* per call.  The embedder, the three stores and the oracle are collaborators:
\* which of them fail during a call is fixed when the call is made (its
\* plan).

Producers == {1, 2}                  \* concurrent callers of ingest_event
Missing == "Missing"                 \* a key the raw event does not have
Empty == ""                          \* an empty session id
EventType == {"log", "error", "warn", "network", "performance",
              "solution_attempt", "solution_outcome"}
RawTypes == EventKinds \cup {Missing}
RawSessions == SessionIds \cup {None, Empty}
Embeddings == {0, 1}                 \* what embedder.encode can return
Collaborators == {"embedder", "stream", "relational", "graph",
                  "similar", "recent", "oracle", "solution_row", "solution_graph"}
\* the collaborators failing during one call: none, or one of them
Plans == {{}} \cup {{x} : x \in Collaborators}
MaxClock == 1                        \* clock readings after the first
SimilarLimit == 5                    \* LIMIT 5 of _find_similar_errors

\* the positions of an ingest_event coroutine: the collaborator call it is in
Steps == {"encode", "xadd", "insert", "graph", "similar", "recent", "oracle",
          "sol_insert", "sol_graph"}

\* embedder.encode(...) and self.error_analyzer(...) are plain calls, not
\* awaits: the event loop runs nothing else until they return
SyncCalls == {"encode", "oracle"}

CollabOf(pc) ==
    CASE pc = "encode" -> "embedder"
      [] pc = "xadd" -> "stream"
      [] pc = "insert" -> "relational"
      [] pc = "graph" -> "graph"
      [] pc = "similar" -> "similar"
      [] pc = "recent" -> "recent"
      [] pc = "oracle" -> "oracle"
      [] pc = "sol_insert" -> "solution_row"
      [] pc = "sol_graph" -> "solution_graph"

AnalyzerCalls == {"similar", "recent", "oracle", "solution_row", "solution_graph"}

NoGraph == [nodes |-> EmptyDict, edges |-> <<>>]

NoStore == [stream |-> <<>>, dev_events |-> EmptyDict, graph |-> NoGraph,
            solutions |-> EmptyDict]

DB == [stream |-> stream, dev_events |-> dev_events, graph |-> graph,
       solutions |-> solutions]

NoSimilar == [asked |-> FALSE, event |-> [id |-> <<0, Missing>>, embedding |-> 0],
              rows |-> <<>>]

NoEvent == [id |-> <<0, Missing>>, type |-> "log", session_id |-> None, embedding |-> 0]

\* SolutionSuggestion: solution_code, explanation and confidence: float, a
\* field without bounds (the values are tenths: 10 is 1.0)
Solutions == {[solution_code |-> "fixA", explanation |-> "whyA", confidence |-> 5],
              [solution_code |-> "fixB", explanation |-> "whyB", confidence |-> 15]}
NoSolution == [solution_code |-> None, explanation |-> None, confidence |-> 0]

\* what the collaborator a coroutine waits for returns: the embedder an
\* embedding, the oracle a solution
Returns == [embedding : Embeddings, solution : Solutions]

ReturnsAt(pc) ==
    LET any == CHOOSE r \in Returns : TRUE
    IN  CASE pc = "encode" -> {r \in Returns : r.solution = any.solution}
          [] pc = "oracle" -> {r \in Returns : r.embedding = any.embedding}
          [] OTHER -> {any}

NoCall == [pc |-> "idle", raw |-> [type |-> Missing, session_id |-> None],
           plan |-> {}, event |-> NoEvent, trace |-> <<>>, stored |-> FALSE,
           solved |-> FALSE, solution |-> NoSolution, result |-> "none",
           before |-> NoStore]

\* PatternIdentifier: pattern_name, pattern_type, description
Patterns == {[name |-> "retry-loop", type |-> "smell", description |-> "d1"],
             [name |-> "retry-loop", type |-> "practice", description |-> "d2"]}
NoPattern == [name |-> None, type |-> None, description |-> None]

NoOp == [name |-> "none", event |-> NoEvent, solution |-> NoSolution,
         solution_id |-> None, success |-> FALSE, pattern |-> NoPattern,
         session_id |-> None, before |-> NoStore, result |-> "none",
         rows |-> <<>>, content |-> <<>>, submitted |-> <<>>, hash |-> None]

\* the types of the values of dataclasses.asdict(event): asdict copies an
\* Enum, a datetime and an ndarray as they are
DevEventFields == [id |-> "str", type |-> "EventType", timestamp |-> "datetime",
                   session_id |-> "str", content |-> "dict", stack_trace |-> "str",
                   context |-> "dict", embedding |-> "ndarray"]

\* the types json.dumps can encode without a `default`
JsonTypes == {"str", "int", "float", "bool", "NoneType", "dict", "list"}

\* json.dumps(obj) raises TypeError: Object of type ... is not JSON serializable
json_dumps_raises(obj) == \E k \in DOMAIN obj : obj[k] \notin JsonTypes

\* dataclasses.asdict(obj) raises TypeError unless obj is a dataclass instance;
\* SolutionSuggestion is a pydantic BaseModel
asdict_raises(class) == class # "dataclass"

\* EventType(value) accepting any string
event_type_defaulting(value) == IF value \in EventType THEN value ELSE "log"

\* EventType(value): the member with that value, or ValueError
event_type(value) == IF value \in EventType THEN value ELSE "ValueError"

\* raw_event.get('type', 'log')
raw_type(raw) == IF raw.type = Missing THEN "log" ELSE raw.type

Raise(call, db, error) ==
    [call |-> [call EXCEPT !.pc = "done", !.result = error], db |-> db]

Return(call, db, result) ==
    [call |-> [call EXCEPT !.pc = "done", !.result = result], db |-> db]

\* the coroutine calls a collaborator and waits for it at pc
Invoke(call, db, pc) ==
    [call |-> [call EXCEPT !.pc = pc, !.trace = Append(@, CollabOf(pc))], db |-> db]


\* ---- DevIntelligence._find_similar_errors
\* `embedding <=> $1`: the distance of two embeddings
distance(a, b) == IF a < b THEN b - a ELSE a - b

\* CREATE INDEX ... ON dev_events USING ivfflat (embedding vector_cosine_ops):
\* the index keeps the rows in lists, one per region of the vector space (here
\* one per embedding), and an index scan reads the list nearest to the query
\* vector only
ivfflat_probed(rows, embedding) ==
    {id \in DOMAIN rows : rows[id].embedding = embedding}

\* the rows the query reads: all of them (sequential scan), or those the
\* index scan finds; the planner chooses
scanned(rows, embedding, scan) ==
    IF scan = "seq" THEN DOMAIN rows ELSE ivfflat_probed(rows, embedding)

\* WHERE type = 'error' AND id != $2, applied to the rows read
similar_candidates(rows, event, scan) ==
    {id \in scanned(rows, event.embedding, scan) :
        rows[id].type = "error" /\ id # event.id}

\* ORDER BY embedding <=> $1::vector: rows at the same distance come in the
\* order the scan finds them (ties: "asc" or "desc" by insertion)
RECURSIVE order_by_distance(_, _, _, _)
order_by_distance(rows, ids, embedding, ties) ==
    IF ids = {} THEN <<>>
    ELSE LET d(x) == distance(rows[x].embedding, embedding)
             before(x, y) == \/ d(x) < d(y)
                             \/ /\ d(x) = d(y)
                                /\ IF ties = "asc" THEN x[1] < y[1] ELSE x[1] > y[1]
             first == CHOOSE x \in ids : \A y \in ids \ {x} : before(x, y)
         IN  <<first>> \o order_by_distance(rows, ids \ {first}, embedding, ties)

\* LIMIT n
limit(seq, n) == SubSeq(seq, 1, IF Len(seq) < n THEN Len(seq) ELSE n)

\* SELECT id, ..., 1 - (embedding <=> $1::vector) as similarity FROM dev_events
\* WHERE ... ORDER BY ... LIMIT 5
find_similar_errors(rows, event, ties, scan) ==
    LET ordered == order_by_distance(rows, similar_candidates(rows, event, scan),
                                     event.embedding, ties)
        top == limit(ordered, SimilarLimit)
    IN  [i \in DOMAIN top |->
            [id |-> top[i],
             similarity |-> 1 - distance(rows[top[i]].embedding, event.embedding)]]

\* ---- DevIntelligence._get_recent_events and the recent_actions of analyze_error
RecentLimit == 20                    \* limit: int = 20
RecentWindow == 10                   \* recent_events[-10:]

\* ORDER BY timestamp DESC
RECURSIVE order_by_timestamp_desc(_, _)
order_by_timestamp_desc(rows, ids) ==
    IF ids = {} THEN <<>>
    ELSE LET first == CHOOSE x \in ids :
                         \A y \in ids : rows[y].timestamp <= rows[x].timestamp
         IN  <<first>> \o order_by_timestamp_desc(rows, ids \ {first})

\* SELECT * FROM dev_events WHERE session_id = $1 ORDER BY timestamp DESC LIMIT $2
get_recent_events(rows, session_id, n) ==
    limit(order_by_timestamp_desc(rows, {id \in DOMAIN rows :
                                            rows[id].session_id = session_id}), n)

\* seq[-n:]
last_n(seq, n) ==
    SubSeq(seq, IF Len(seq) > n THEN Len(seq) - n + 1 ELSE 1, Len(seq))

\* the Python types of the columns of a fetched row: asyncpg hands a json or
\* jsonb column over as a str (no type codec is set on the pool)
RecordTypes == [id |-> "str", type |-> "str", timestamp |-> "datetime",
                session_id |-> "str", content |-> "str", stack_trace |-> "str",
                context |-> "str", embedding |-> "str", changelog |-> "str"]

\* e["content"].get("message", ""): a str has no get
content_get_raises == RecordTypes.content # "dict"

\* recent_actions=[e["content"].get("message", "") for e in recent_events[-10:]]
\* with recent_events = await self._get_recent_events(event.session_id); the
\* message of an event stands for its id
recent_actions(rows, session_id) ==
    LET recent_events == get_recent_events(rows, session_id, RecentLimit)
        window == last_n(recent_events, RecentWindow)
    IN  IF window # <<>> /\ content_get_raises
        THEN [error |-> "AttributeError", actions |-> <<>>]
        ELSE [error |-> "none", actions |-> window]

\* ---- DevEvent.to_changelog_entry
\* A content payload is a dict: its items <<key, value>> in insertion order,
\* no key twice.  The key k stands for the k-th key in the order of strings.
\* sorted(dct.items()): the items in the order of their keys
RECURSIVE sorted_items(_)
sorted_items(content) ==
    IF content = <<>> THEN <<>>
    ELSE LET i == CHOOSE i \in DOMAIN content :
                     \A j \in DOMAIN content : content[i][1] <= content[j][1]
             rest == [j \in 1..(Len(content) - 1) |->
                         IF j < i THEN content[j] ELSE content[j + 1]]
         IN  <<content[i]>> \o sorted_items(rest)

\* json.dumps(content) without sort_keys: the items in insertion order
json_dumps_insertion_order(content) == content

\* json.dumps(content, sort_keys=True): the items in the order of their keys
json_dumps_sort_keys(content) == sorted_items(content)

\* hashlib.sha256(text.encode()).hexdigest(): a value that the text fixes
sha256(text) == <<"sha256", text>>

\* the "hash" of to_changelog_entry
fingerprint(content) == sha256(json_dumps_sort_keys(content))

\* ---- the graph store
merge_node(g, label, id, props) ==
    [g EXCEPT !.nodes = DictSet(@, <<label, id>>, props)]

\* edges are a multiset: edge -> how many of them there are
create_edge(g, rel, from, to) ==
    LET edge == <<rel, from, to>>
        n == IF edge \in DOMAIN g.edges THEN g.edges[edge] ELSE 0
    IN  [g EXCEPT !.edges = DictSet(@, edge, n + 1)]

\* how many edges rel there are from one node to another
edge_count(g, rel, from, to) ==
    IF <<rel, from, to>> \in DOMAIN g.edges THEN g.edges[<<rel, from, to>>] ELSE 0

\* ---- the writes of StorageBackend.store_event
\* xadd("devintel:stream", ...)
stream_append(db, e) == [db EXCEPT !.stream = Append(@, e.id)]

\* INSERT INTO dev_events ... VALUES (...)
insert_event(db, e) ==
    [db EXCEPT !.dev_events = DictSet(@, e.id, [type |-> e.type,
                                                timestamp |-> e.id[1],
                                                session_id |-> e.session_id,
                                                embedding |-> e.embedding])]

\* MERGE (e:Event {id}) SET ... MERGE (s:Session {id}) CREATE (e)-[:BELONGS_TO]->(s)
graph_event(db, e) ==
    LET g1 == merge_node(db.graph, "Event", e.id,
                         [type |-> e.type, session_id |-> e.session_id])
        g2 == merge_node(g1, "Session", e.session_id, [id |-> e.session_id])
    IN  [db EXCEPT !.graph = create_edge(g2, "BELONGS_TO", e.id, e.session_id)]

\* ---- DevIntelligence._store_solution_attempt
\* a success rate: the mean of num successes among den outcomes, or SQL NULL
Rate(num, den) == [null |-> FALSE, num |-> num, den |-> den]
NullRate == [null |-> TRUE, num |-> 0, den |-> 1]

\* solution_id = f"sol_{event.id}"
solution_id(e) == <<"sol", e.id>>

\* INSERT INTO solutions (id, error_pattern, solution_code, explanation,
\* dspy_history) ... ON CONFLICT (id) DO UPDATE SET usage_count =
\* solutions.usage_count + 1; success_rate and usage_count default to 0;
\* dspy_history is {"history": ..., "confidence": ...}
insert_solution(db, e, solution) ==
    LET id == solution_id(e)
        row == IF id \in DOMAIN db.solutions
               THEN [db.solutions[id] EXCEPT !.usage_count = @ + 1]
               ELSE [solution_code |-> solution.solution_code,
                     explanation |-> solution.explanation,
                     success_rate |-> Rate(0, 1), usage_count |-> 0,
                     dspy_history |-> [confidence |-> solution.confidence]]
    IN  [db EXCEPT !.solutions = DictSet(@, id, row)]

\* MATCH (e:Event {id}) MERGE (s:Solution {id}) SET s.code = $code,
\* s.confidence = $confidence CREATE (e)-[:SOLVED_BY]->(s): without the Event
\* node the MATCH has no row and nothing is written
graph_solution(db, e, solution) ==
    LET id == solution_id(e)
    IN  IF <<"Event", e.id>> \in DOMAIN db.graph.nodes
        THEN [db EXCEPT !.graph =
                 create_edge(merge_node(@, "Solution", id,
                                        [code |-> solution.solution_code,
                                         confidence |-> solution.confidence]),
                             "SOLVED_BY", e.id, id)]
        ELSE db

store_solution_attempt(db, e, solution) ==
    graph_solution(insert_solution(db, e, solution), e, solution)

\* ---- DevIntelAPI.record_outcome
\* jsonb_array_elements(COALESCE(s2.dspy_history->'outcomes', '[]'::jsonb))
outcomes_of(dspy_history) ==
    IF "outcomes" \in DOMAIN dspy_history THEN dspy_history.outcomes ELSE <<>>

RECURSIVE successes(_)
successes(flags) ==
    IF flags = <<>> THEN 0
    ELSE (IF Head(flags) THEN 1 ELSE 0) + successes(Tail(flags))

\* SELECT AVG(CASE WHEN success THEN 1.0 ELSE 0.0 END): NULL over no rows
avg(flags) ==
    IF flags = <<>> THEN NullRate ELSE Rate(successes(flags), Len(flags))

OutcomeNodes(g) == {k \in DOMAIN g.nodes : k[1] = "Outcome"}

\* CREATE (o:Outcome {...}) without MATCH (s:Solution {id}): an Outcome is
\* made whether the Solution is there or not
graph_outcome_unmatched(db, sid, success, now) ==
    LET n == Cardinality(OutcomeNodes(db.graph)) + 1
    IN  [db EXCEPT !.graph =
            create_edge(merge_node(@, "Outcome", n,
                                   [id |-> <<"out", now>>, success |-> success]),
                        "RESULTED_IN", sid, n)]

\* MATCH (s:Solution {id}) CREATE (o:Outcome {...}) CREATE (s)-[:RESULTED_IN]->(o):
\* a new node each time (the n-th Outcome node is <<"Outcome", n>>); without
\* the Solution node nothing is created
graph_outcome(db, sid, success, now) ==
    LET n == Cardinality(OutcomeNodes(db.graph)) + 1
    IN  IF <<"Solution", sid>> \in DOMAIN db.graph.nodes
        THEN [db EXCEPT !.graph =
                 create_edge(merge_node(@, "Outcome", n,
                                        [id |-> <<"out", now>>, success |-> success]),
                             "RESULTED_IN", sid, n)]
        ELSE db

\* UPDATE solutions SET success_rate = (SELECT AVG(...) ...) WHERE id = $1
update_success_rate(db, sid) ==
    IF sid \in DOMAIN db.solutions
    THEN [db EXCEPT !.solutions[sid].success_rate =
             avg(outcomes_of(db.solutions[sid].dspy_history))]
    ELSE db

record_outcome(db, sid, success, now) ==
    update_success_rate(graph_outcome(db, sid, success, now), sid)

\* ---- DevIntelligence._update_pattern_graph
\* MERGE (p:Pattern {name}) SET p.type, p.description, p.last_seen WITH p
\* MATCH (s:Session {id}) CREATE (s)-[:EXHIBITS_PATTERN]->(p): without the
\* Session node the MATCH has no row and no edge is created
update_pattern_graph(db, pattern, session_id) ==
    LET g1 == merge_node(db.graph, "Pattern", pattern.name,
                         [type |-> pattern.type, description |-> pattern.description])
    IN  [db EXCEPT !.graph =
            IF <<"Session", session_id>> \in DOMAIN g1.nodes
            THEN create_edge(g1, "EXHIBITS_PATTERN", session_id, pattern.name)
            ELSE g1]

\* ---- DevIntelAPI.ingest_event after `await self.storage.store_event(event)`
\* (the store failed, and ingest_event goes on)
store_event_raised_ignored(call, db, error) ==
    IF call.event.type = "error"
    THEN Invoke(call, db, "similar")
    ELSE Return(call, db, "stored")

\* store_event raised: ingest_event has no handler, the caller gets the error
store_event_raised(call, db, error) == Raise(call, db, error)

\* store_event returned: `if event.type == EventType.ERROR:` analyze_error,
\* else the stored response
store_event_returned(call, db) ==
    LET call1 == [call EXCEPT !.stored = TRUE]
    IN  IF call1.event.type = "error"
        THEN Invoke(call1, db, "similar")
        ELSE Return(call1, db, "stored")

\* the collaborator call the coroutine waits for is over: the coroutine runs
\* to its next collaborator call, or to its end; ret is what the collaborator
\* returns
CallStep(call0, db, ret) ==
    LET call == IF call0.pc = "encode" /\ CollabOf(call0.pc) \notin call0.plan
                THEN [call0 EXCEPT !.event.embedding = ret.embedding]
                ELSE call0
        e == call.event
        failed == CollabOf(call.pc) \in call.plan
    IN
    CASE call.pc = "encode" ->
           \* event.embedding = self.embedder.encode(...), then the arguments
           \* of xadd: json.dumps(asdict(event))
           IF failed THEN store_event_raised(call, db, "CollaboratorError")
           ELSE IF json_dumps_raises(DevEventFields)
           THEN store_event_raised(call, db, "TypeError")
           ELSE Invoke(call, db, "xadd")
      [] call.pc = "xadd" ->
           IF failed THEN store_event_raised(call, db, "CollaboratorError")
           ELSE Invoke(call, stream_append(db, e), "insert")
      [] call.pc = "insert" ->
           \* id TEXT PRIMARY KEY, session_id TEXT NOT NULL
           IF failed THEN store_event_raised(call, db, "CollaboratorError")
           ELSE IF e.id \in DOMAIN db.dev_events
           THEN store_event_raised(call, db, "UniqueViolation")
           ELSE IF e.session_id = None
           THEN store_event_raised(call, db, "NotNullViolation")
           ELSE Invoke(call, insert_event(db, e), "graph")
      [] call.pc = "graph" ->
           \* MERGE (e:Event) SET ... MERGE (s:Session) CREATE (e)-[:BELONGS_TO]->(s);
           \* MERGE on a null property value is an error
           IF failed THEN store_event_raised(call, db, "CollaboratorError")
           ELSE IF e.session_id = None
           THEN store_event_raised(call, db, "CypherError")
           ELSE store_event_returned(call, graph_event(db, e))
      [] call.pc = "similar" ->
           \* similar_errors = await self._find_similar_errors(event)
           IF failed THEN Raise(call, db, "CollaboratorError")
           ELSE Invoke(call, db, "recent")
      [] call.pc = "recent" ->
           \* recent_events = await self._get_recent_events(...), then
           \* e["content"].get(...) for each row: asyncpg hands a JSONB column
           \* over as a str, which has no get
           IF failed THEN Raise(call, db, "CollaboratorError")
           ELSE IF recent_actions(db.dev_events, e.session_id).error # "none"
           THEN Raise(call, db, "AttributeError")
           ELSE Invoke(call, db, "oracle")
      [] call.pc = "oracle" ->
           \* solution = self.error_analyzer(error_context=error_context)
           IF failed THEN Raise(call, db, "CollaboratorError")
           ELSE Invoke([call EXCEPT !.solved = TRUE, !.solution = ret.solution],
                       db, "sol_insert")
      [] call.pc = "sol_insert" ->
           \* INSERT INTO solutions ... ON CONFLICT (id) DO UPDATE
           \* SET usage_count = solutions.usage_count + 1
           IF failed THEN Raise(call, db, "CollaboratorError")
           ELSE Invoke(call, insert_solution(db, e, call.solution), "sol_graph")
      [] call.pc = "sol_graph" ->
           \* MATCH (e:Event) MERGE (s:Solution) SET ... CREATE (e)-[:SOLVED_BY]->(s),
           \* then ingest_event: "solution": asdict(solution)
           IF failed THEN Raise(call, db, "CollaboratorError")
           ELSE LET db1 == graph_solution(db, e, call.solution)
                IN  IF asdict_raises("BaseModel")
                    THEN Raise(call, db1, "TypeError")
                    ELSE Return(call, db1, "solution")

\* ingest_event with analyze_error before store_event
ingest_begin_analyze_first(call, db) == Invoke(call, db, "similar")

\* ingest_event once the DevEvent is built: await self.storage.store_event(event),
\* which starts with self.embedder.encode(...)
ingest_begin(call, db) == Invoke(call, db, "encode")

\* DevIntelAPI.ingest_event(raw_event) up to its first collaborator call;
\* now is datetime.now()
ingest_event(raw, plan, now, db) ==
    LET type == event_type(raw_type(raw))
        call == [NoCall EXCEPT !.raw = raw, !.plan = plan, !.before = db,
                               !.event = [id |-> <<now, raw.type>>, type |-> type,
                                          session_id |-> raw.session_id,
                                          embedding |-> NoEvent.embedding]]
    IN  IF type = "ValueError"
        THEN Raise(call, db, "ValueError")
        ELSE ingest_begin(call, db)

\* a call run to its end without another task in between
RECURSIVE RunCall(_, _, _)
RunCall(call, db, ret) ==
    IF call.pc = "done" THEN [call |-> call, db |-> db]
    ELSE LET s == CallStep(call, db, ret) IN RunCall(s.call, s.db, ret)

\* what process_event sees of `await self.api.ingest_event(...)`
IngestOutcome(call) ==
    IF call.result \in {"stored", "solution"} THEN "ok"
    ELSE IF call.stored THEN "analysis_failed"
    ELSE "store_failed"

\* the outcomes ingest_event can have for an event of a valid type
IngestOutcomes(kind, session_id) ==
    {LET s == ingest_event([type |-> kind, session_id |-> session_id],
                           plan, clock, DB)
     IN  IngestOutcome(RunCall(s.call, s.db, ret).call) :
        plan \in Plans, ret \in Returns}

\* ----------------------------------------------------------------- Init
Init ==
    /\ active_connections = ConnectionManager.ac
    /\ session_connections = ConnectionManager.sc
    /\ connection_metadata = ConnectionManager.md
    /\ task = [c \in Clients |-> NewTask]
    /\ received = 0
    /\ persisted = [c \in Clients |-> <<>>]
    /\ removed_by_send = {}
    /\ obs = NoObs
    /\ clock = 0
    /\ loop_task = {}
    /\ calls = [p \in Producers |-> NoCall]
    /\ stream = NoStore.stream
    /\ dev_events = NoStore.dev_events
    /\ graph = NoStore.graph
    /\ solutions = NoStore.solutions
    /\ finished = {}
    /\ similar = NoSimilar
    /\ op = NoOp

\* -------------------------------------------------------------- actions
\* websocket_endpoint: client_id = uuid4(); await manager.connect(websocket, client_id)
\* uuid4() returns an id never used before: the first one not yet drawn
Connect(c) ==
    /\ task[c].pc = "accept"
    /\ \A d \in Clients : d < c => task[d].pc # "accept"
    /\ Commit([Cur EXCEPT !.reg = connect(@, c),
                          !.task[c].pc = "receive",
                          !.obs.conn = {[client |-> c, before |-> Cur.reg]}])
    /\ UNCHANGED <<received, persisted, apivars>>

\* receive_text raises WebSocketDisconnect, or json.loads / message['type']
\* raises on a malformed message: manager.disconnect(client_id), task ends
ReceiveDisconnect(c) ==
    /\ task[c].pc = "receive"
    /\ LET st1 == EndpointExcept(Cur, c)
       IN  Commit([st1 EXCEPT !.obs.cd = {[client |-> c, before |-> r.before,
                                           after |-> st1.reg] :
                                          r \in {x \in obs.conn : x.client = c}}])
    /\ UNCHANGED <<received, persisted, apivars>>

\* message['type'] == 'init' with sessionId s
ReceiveInit(c, s) ==
    /\ MayReceive(c)
    /\ LET st1 == [Received(Cur, c) EXCEPT
                      !.reg = set_client_metadata(@, c, [session_id |-> s])]
           st2 == SendPersonal(st1, c, "init_ack")
       IN  Commit([st2 EXCEPT !.obs.init =
                      {[client |-> c, session_id |-> s, after |-> st1.reg,
                        acks |-> IF st2.task[c].pc = "send"
                                 THEN {st2.task[c].target} ELSE {}]}])
    /\ received' = received + 1
    /\ UNCHANGED <<persisted, apivars>>

\* message['type'] == 'event' (one event) or 'bulk' (a list of events)
ReceiveEvents(c, n) ==
    /\ MayReceive(c)
    /\ LET session_id == MetaSession(connection_metadata, c)
           st1 == Message(Cur, c, "events", session_id)
       IN  IF bound(session_id) /\ n > 0
           THEN \E st2 \in Run([st1 EXCEPT !.task[c].session_id = session_id,
                                            !.task[c].n = n,
                                            !.task[c].pos = 0,
                                            !.task[c].pc = "ev_next"], c) :
                   Commit(st2)
           ELSE Commit(ToReceive(st1, c))
    /\ received' = received + 1
    /\ UNCHANGED <<persisted, apivars>>

\* message['type'] == 'query'
ReceiveQuery(c, query) ==
    /\ MayReceive(c)
    /\ LET session_id == MetaSession(connection_metadata, c)
           st1 == Message(Cur, c, "query", session_id)
       IN  IF bound(session_id) /\ query = "patterns"
           THEN Commit([st1 EXCEPT !.task[c].session_id = session_id,
                                   !.task[c].pc = "patterns"])
           ELSE Commit(ToReceive(st1, c))
    /\ received' = received + 1
    /\ UNCHANGED <<persisted, apivars>>

\* await devintel_api.get_patterns(session_id) returns or raises
PatternsDone(c, ok) ==
    /\ task[c].pc = "patterns"
    /\ Commit(IF ok THEN SendPersonal(Cur, c, "query_result")
                    ELSE EndpointExcept(Cur, c))
    /\ UNCHANGED <<received, persisted, apivars>>

\* the id of the DevEvent process_event builds:
\* f"evt_{datetime.now().timestamp()}_{event_data.get('type', 'unknown')}"
process_event_id(now, type) == <<now, IF type = Missing THEN "unknown" ELSE type>>

\* the raw event process_event hands to ingest_event: 'type': event.type.value,
\* 'session_id': session_id
ingest_args(type, session_id) ==
    [type |-> raw_type([type |-> type]), session_id |-> session_id]

\* the id process_event has for its messages (event.id) and the id the
\* ingest_event it called gave the event; ingest_event reads the clock again,
\* at `later`
event_ids(c, type, session_id, later) ==
    [client |-> c, own |-> process_event_id(clock, type),
     ingested |-> ingest_event(ingest_args(type, session_id), {}, later,
                               DB).call.event.id]

\* await self.api.ingest_event(...) of process_event returns or raises; the
\* clock reading of ingest_event is the one of process_event or a later one
IngestDone(c, outcome) ==
    /\ task[c].pc = "ingest"
    /\ LET t == task[c]
           i == bulk_pick(t.n, t.pos)
           kind == t.kind
       IN  /\ outcome \in IngestOutcomes(kind, t.session_id)
           /\ persisted' = [persisted EXCEPT ![c] = Append(@, <<t.msg, i>>)]
           /\ \E later \in clock..(clock + 1) :
               \E st2 \in Run([Cur EXCEPT
                              !.obs.ids = {event_ids(c, kind, t.session_id, later)},
                              !.task[c].ctx = IF outcome # "ok" THEN "error"
                                              ELSE IF kind = "error" THEN "solution"
                                              ELSE "event_processed",
                              !.task[c].pc = "bc_start"], c) :
                 Commit(st2)
    /\ UNCHANGED <<received, apivars>>

\* the send_text task c awaits returns
SendOk(c) ==
    /\ task[c].pc = "send"
    /\ SendCanReturn(task[c].target)
    /\ \E st2 \in Run(AfterSend(Cur, c, TRUE), c) : Commit(st2)
    /\ UNCHANGED <<received, persisted, apivars>>

\* the send_text task c awaits raises
SendFail(c) ==
    /\ task[c].pc = "send"
    /\ \E st2 \in Run(AfterSend(Cur, c, FALSE), c) : Commit(st2)
    /\ UNCHANGED <<received, persisted, apivars>>

Ingests == {"ok", "store_failed", "analysis_failed"}

Next ==
    \/ \E c \in Clients : Connect(c)
    \/ \E c \in Clients : ReceiveDisconnect(c)
    \/ \E c \in Clients, s \in SessionIds \cup {None} : ReceiveInit(c, s)
    \/ \E c \in Clients, n \in 0..MaxBulk : ReceiveEvents(c, n)
    \/ \E c \in Clients, query \in {"patterns", "other"} : ReceiveQuery(c, query)
    \/ \E c \in Clients, ok \in BOOLEAN : PatternsDone(c, ok)
    \/ \E c \in Clients, outcome \in Ingests : IngestDone(c, outcome)
    \/ \E c \in Clients : SendOk(c)
    \/ \E c \in Clients : SendFail(c)

Spec == Init /\ [][Next]_vars

\* ------------------------------------------------ sessions already joined
\* The server from a state in which every connection has been accepted and
\* has sent its init (and got its init_ack): the registry connect and
\* set_client_metadata leave, every task at receive_text.

\* the registry after connections 1..k have connected and sent init, the
\* connection c with the session id b[c]
RECURSIVE Joined(_, _)
Joined(b, k) ==
    IF k = 0 THEN ConnectionManager
    ELSE set_client_metadata(connect(Joined(b, k - 1), k), k, [session_id |-> b[k]])

InitSession ==
    /\ \E b \in [Clients -> SessionIds] :
          /\ active_connections = Joined(b, MaxClients).ac
          /\ session_connections = Joined(b, MaxClients).sc
          /\ connection_metadata = Joined(b, MaxClients).md
    /\ task = [c \in Clients |-> [NewTask EXCEPT !.pc = "receive"]]
    /\ received = 0
    /\ persisted = [c \in Clients |-> <<>>]
    /\ removed_by_send = {}
    /\ obs = NoObs
    /\ clock = 0
    /\ loop_task = {}
    /\ calls = [p \in Producers |-> NoCall]
    /\ stream = NoStore.stream
    /\ dev_events = NoStore.dev_events
    /\ graph = NoStore.graph
    /\ solutions = NoStore.solutions
    /\ finished = {}
    /\ similar = NoSimilar
    /\ op = NoOp

NextSession ==
    \/ \E c \in Clients : ReceiveDisconnect(c)
    \/ \E c \in Clients, s \in SessionIds \cup {None} : ReceiveInit(c, s)
    \/ \E c \in Clients, n \in 0..MaxBulk : ReceiveEvents(c, n)
    \/ \E c \in Clients, query \in {"patterns", "other"} : ReceiveQuery(c, query)
    \/ \E c \in Clients, ok \in BOOLEAN : PatternsDone(c, ok)
    \/ \E c \in Clients, outcome \in Ingests : IngestDone(c, outcome)
    \/ \E c \in Clients : SendOk(c)
    \/ \E c \in Clients : SendFail(c)

SpecSession == InitSession /\ [][NextSession]_vars

\* ------------------------------------------------ the /ws/monitor endpoint
\* monitor_endpoint beside websocket_endpoint: a monitor connection is in the
\* handle map like any other, sends the sessions every five seconds and
\* never receives.

\* get_active_sessions(): the sessions the metadata name, each with its
\* connections
get_active_sessions(reg) ==
    {[id |-> s,
      connections |-> {c \in DOMAIN reg.md : reg.md[c].session_id = s}] :
     s \in {reg.md[c].session_id : c \in DOMAIN reg.md} \ {None}}

\* what websocket.send_text raises when it raises: WebSocketDisconnect, or an
\* error of the transport (RuntimeError, ConnectionClosed)
SendErrors == {"WebSocketDisconnect", "RuntimeError"}

\* sessions = await get_active_sessions(); await websocket.send_text(...)
monitor_send(st, c) ==
    [st EXCEPT !.task[c].pc = "monitor_send",
               !.obs.mon = {[client |-> c, data |-> get_active_sessions(st.reg)]}]

\* the except clauses of monitor_endpoint: except WebSocketDisconnect only
monitor_except(st, c, error) ==
    LET st1 == IF error = "WebSocketDisconnect"
               THEN Disconnected(st, c, "task", FALSE)
               ELSE st
    IN  [st1 EXCEPT !.task[c] = [NewTask EXCEPT !.pc = "done"]]

\* monitor_endpoint: monitor_id = uuid4(); await manager.connect(websocket,
\* monitor_id); then the first sessions message
MonitorConnect(c) ==
    /\ task[c].pc = "accept"
    /\ \A d \in Clients : d < c => task[d].pc # "accept"
    /\ Commit(monitor_send([Cur EXCEPT !.reg = connect(@, c),
                                       !.obs.conn = {[client |-> c,
                                                      before |-> Cur.reg]}], c))
    /\ UNCHANGED <<received, persisted, apivars>>

\* the send_text of the monitor returns: await asyncio.sleep(5)
MonitorSent(c) ==
    /\ task[c].pc = "monitor_send"
    /\ Commit([Cur EXCEPT !.task[c].pc = "monitor_sleep"])
    /\ UNCHANGED <<received, persisted, apivars>>

\* the sleep is over: the next sessions_update
MonitorWake(c) ==
    /\ task[c].pc = "monitor_sleep"
    /\ Commit(monitor_send(Cur, c))
    /\ UNCHANGED <<received, persisted, apivars>>

\* the send_text of the monitor raises
MonitorSendRaises(c, error) ==
    /\ task[c].pc = "monitor_send"
    /\ Commit(monitor_except(Cur, c, error))
    /\ UNCHANGED <<received, persisted, apivars>>

NextMonitor ==
    \/ \E c \in Clients : Connect(c)
    \/ \E c \in Clients : MonitorConnect(c)
    \/ \E c \in Clients : MonitorSent(c)
    \/ \E c \in Clients : MonitorWake(c)
    \/ \E c \in Clients, error \in SendErrors : MonitorSendRaises(c, error)
    \/ \E c \in Clients : ReceiveDisconnect(c)
    \/ \E c \in Clients, s \in SessionIds \cup {None} : ReceiveInit(c, s)
    \/ \E c \in Clients : SendOk(c)
    \/ \E c \in Clients : SendFail(c)

SpecMonitor == Init /\ [][NextMonitor]_vars

\* ------------------------------------------------ the manager called directly
\* The ConnectionManager driven call by call:
\* every call runs to its end before the next one starts, a send_text returns
\* or raises at once.

\* task c runs on through its send_text awaits, each returning or raising
RECURSIVE RunAtomic(_, _)
RunAtomic(st, c) ==
    IF st.task[c].pc = "send"
    THEN UNION {RunAtomic(AfterSend(st, c, ok), c) : ok \in BOOLEAN}
    ELSE IF st.task[c].pc \in Suspended THEN {st}
    ELSE UNION {RunAtomic(st1, c) : st1 \in MicroSteps(st, c)}

\* manager.disconnect(c), for any id: live, already disconnected, never connected
CallDisconnect(c) ==
    /\ LET st1 == Disconnected(Cur, c, "direct", FALSE)
       IN  Commit([st1 EXCEPT !.obs.cd = {[client |-> c, before |-> r.before,
                                           after |-> st1.reg] :
                                          r \in {x \in obs.conn : x.client = c}}])
    /\ UNCHANGED <<received, persisted, apivars>>

\* manager.set_client_metadata(c, {'session_id': s}) for an accepted connection
CallSetMetadata(c, s) ==
    /\ task[c].pc # "accept"
    /\ Commit([Cur EXCEPT !.reg = set_client_metadata(@, c, [session_id |-> s])])
    /\ UNCHANGED <<received, persisted, apivars>>

\* await manager.send_personal_message(message, c); send_text returns or raises
CallSend(c, ok) ==
    /\ Commit(IF c \in DOMAIN active_connections /\ ~ok
              THEN send_text_raised(Cur, c) ELSE Cur)
    /\ UNCHANGED <<received, persisted, apivars>>

\* await manager.broadcast_to_session(message, s), for any session id
CallBroadcast(s) ==
    /\ \E c \in Clients :
         /\ \A d \in Clients : c <= d
         /\ \E st2 \in RunAtomic([Cur EXCEPT !.task[c].session_id = s,
                                             !.task[c].ctx = "direct",
                                             !.task[c].pc = "bc_start"], c) :
               Commit([st2 EXCEPT !.task = task])
    /\ UNCHANGED <<received, persisted, apivars>>

NextDirect ==
    \/ \E c \in Clients : Connect(c)
    \/ \E c \in Clients : CallDisconnect(c)
    \/ \E c \in Clients, s \in SessionIds \cup {None} : CallSetMetadata(c, s)
    \/ \E c \in Clients, ok \in BOOLEAN : CallSend(c, ok)
    \/ \E s \in SessionIds : CallBroadcast(s)

SpecDirect == Init /\ [][NextDirect]_vars


\* ------------------------------------------------ the ingest pipeline called
\* Producers call DevIntelAPI.ingest_event (process_event and the /ingest
\* handler do); one event loop runs them all.

\* what a step of the coroutine of p leaves behind
ApiCommit(p, s) ==
    /\ stream' = s.db.stream
    /\ dev_events' = s.db.dev_events
    /\ graph' = s.db.graph
    /\ solutions' = s.db.solutions
    /\ IF s.call.pc = "done"
       THEN /\ calls' = [calls EXCEPT ![p] = NoCall]
            /\ finished' = {[producer |-> p, call |-> s.call]}
            /\ loop_task' = {}
       ELSE /\ calls' = [calls EXCEPT ![p] = s.call]
            /\ finished' = {}
            /\ loop_task' = IF s.call.pc \in SyncCalls THEN {p} ELSE {}

\* the clock moves on
Tick ==
    /\ clock < MaxClock
    /\ clock' = clock + 1
    /\ finished' = {}
    /\ UNCHANGED <<loop_task, calls, stream, dev_events, graph, solutions, similar, op>>
    /\ UNCHANGED servervars

\* await devintel_api.ingest_event(raw_event), started by p when the event
\* loop is free to run it (producers are alike: the first idle one is taken)
CallIngest(p, type, session_id, plan) ==
    /\ calls[p].pc = "idle"
    /\ \A q \in Producers : calls[q].pc = "idle" => p <= q
    /\ loop_task = {}
    /\ ApiCommit(p, ingest_event([type |-> type, session_id |-> session_id],
                                 plan, clock, DB))
    /\ UNCHANGED <<clock, similar, op>>
    /\ UNCHANGED servervars

\* the collaborator call p is in returns or raises, and p runs on
ResumeCall(p, ret) ==
    /\ calls[p].pc \in Steps
    /\ loop_task \subseteq {p}
    /\ ret \in ReturnsAt(calls[p].pc)
    /\ ApiCommit(p, CallStep(calls[p], DB, ret))
    /\ UNCHANGED <<clock, similar, op>>
    /\ UNCHANGED servervars

NextIngest ==
    \/ Tick
    \/ \E p \in Producers, type \in RawTypes, session_id \in RawSessions,
          plan \in Plans :
            CallIngest(p, type, session_id, plan)
    \/ \E p \in Producers, ret \in Returns : ResumeCall(p, ret)

SpecIngest == Init /\ [][NextIngest]_vars

\* ------------------------------------------------ the similarity query alone
\* _find_similar_errors over every table of at most MaxRows events, asked
\* once: the k-th event stored has the id evt_<k>_<type>.
MaxRows == 6

InitSimilar ==
    /\ active_connections = ConnectionManager.ac
    /\ session_connections = ConnectionManager.sc
    /\ connection_metadata = ConnectionManager.md
    /\ task = [c \in Clients |-> NewTask]
    /\ received = 0
    /\ persisted = [c \in Clients |-> <<>>]
    /\ removed_by_send = {}
    /\ obs = NoObs
    /\ clock = 0
    /\ loop_task = {}
    /\ calls = [p \in Producers |-> NoCall]
    /\ stream = NoStore.stream
    /\ graph = NoStore.graph
    /\ solutions = NoStore.solutions
    /\ finished = {}
    /\ similar = NoSimilar
    /\ op = NoOp
    /\ \E n \in 0..MaxRows :
         \E f \in [1..n -> {"log", "error"} \X Embeddings] :
            dev_events = [id \in {<<k, f[k][1]>> : k \in 1..n} |->
                             [type |-> id[2], timestamp |-> id[1],
                              session_id |-> "s1", embedding |-> f[id[1]][2]]]

\* await self._find_similar_errors(event)
FindSimilar(event, ties, scan) ==
    /\ ~similar.asked
    /\ similar' = [asked |-> TRUE, event |-> event,
                   rows |-> find_similar_errors(dev_events, event, ties, scan)]
    /\ UNCHANGED <<clock, loop_task, calls, stream, dev_events, graph, solutions,
                   finished, op>>
    /\ UNCHANGED servervars

\* the events a query can be made for: a stored one, or one not stored
QueryEvents ==
    {[id |-> id, embedding |-> dev_events[id].embedding] : id \in DOMAIN dev_events}
    \cup {[id |-> <<0, "error">>, embedding |-> e] : e \in Embeddings}

NextSimilar ==
    \E event \in QueryEvents, ties \in {"asc", "desc"}, scan \in {"seq", "ivfflat"} :
        FindSimilar(event, ties, scan)

SpecSimilar == InitSimilar /\ [][NextSimilar]_vars

\* ------------------------------------------------ the stores called directly
\* store_event, _store_solution_attempt and record_outcome
\* called one at a time on stores that hold some events already.  The stores
\* outlive the process: what they hold when it starts is an input, here any
\* of the events of StoredEvents with the stream entry, the row, the nodes
\* and the edge that store_event writes for an event.
MaxUsage == 2                        \* repeated solution attempts for one event
MaxOutcomes == 2                     \* outcomes recorded
MaxDetections == 2                   \* pattern detections that make an edge

StoredEvents ==
    {[id |-> <<0, "error">>, type |-> "error", session_id |-> "s1", embedding |-> 0],
     [id |-> <<0, "log">>, type |-> "log", session_id |-> "s2", embedding |-> 0]}

persisted_event(db, e) == graph_event(insert_event(stream_append(db, e), e), e)

RECURSIVE PersistAll(_, _)
PersistAll(db, S) ==
    IF S = {} THEN db
    ELSE LET e == CHOOSE e \in S : TRUE
         IN  PersistAll(persisted_event(db, e), S \ {e})

InitStore ==
    /\ active_connections = ConnectionManager.ac
    /\ session_connections = ConnectionManager.sc
    /\ connection_metadata = ConnectionManager.md
    /\ task = [c \in Clients |-> NewTask]
    /\ received = 0
    /\ persisted = [c \in Clients |-> <<>>]
    /\ removed_by_send = {}
    /\ obs = NoObs
    /\ clock = 0
    /\ loop_task = {}
    /\ calls = [p \in Producers |-> NoCall]
    /\ finished = {}
    /\ similar = NoSimilar
    /\ op = NoOp
    /\ \E S \in SUBSET StoredEvents :
         LET db == PersistAll(NoStore, S)
         IN  /\ stream = db.stream
             /\ dev_events = db.dev_events
             /\ graph = db.graph
             /\ solutions = db.solutions

StoreCommit(db) ==
    /\ stream' = db.stream
    /\ dev_events' = db.dev_events
    /\ graph' = db.graph
    /\ solutions' = db.solutions
    /\ UNCHANGED <<clock, loop_task, calls, finished, similar>>
    /\ UNCHANGED servervars

StoreSteps == {"encode", "xadd", "insert", "graph"}

\* store_event run to its end
RECURSIVE RunStore(_, _, _)
RunStore(call, db, ret) ==
    IF call.pc \in StoreSteps
    THEN LET s == CallStep(call, db, ret) IN RunStore(s.call, s.db, ret)
    ELSE [call |-> call, db |-> db]

\* await storage.store_event(event)
CallStoreEvent(e) ==
    LET call == [NoCall EXCEPT !.event = e, !.before = DB,
                               !.raw = [type |-> e.type, session_id |-> e.session_id]]
        s0 == Invoke(call, DB, "encode")
        s == RunStore(s0.call, s0.db, [embedding |-> e.embedding, solution |-> NoSolution])
    IN  /\ StoreCommit(s.db)
        /\ op' = [NoOp EXCEPT !.name = "store_event", !.event = e, !.before = DB,
                              !.result = IF s.call.stored THEN "returned"
                                         ELSE s.call.result]

\* await self._store_solution_attempt(event, solution, history)
CallStoreSolution(e, solution) ==
    /\ e.type = "error"
    /\ solution_id(e) \in DOMAIN solutions =>
          solutions[solution_id(e)].usage_count < MaxUsage
    /\ StoreCommit(store_solution_attempt(DB, e, solution))
    /\ op' = [NoOp EXCEPT !.name = "store_solution_attempt", !.event = e,
                          !.solution = solution, !.solution_id = solution_id(e),
                          !.before = DB, !.result = "returned"]

\* await devintel_api.record_outcome(solution_id, success, metrics)
CallRecordOutcome(sid, success) ==
    /\ Cardinality(OutcomeNodes(graph)) < MaxOutcomes
    /\ StoreCommit(record_outcome(DB, sid, success, clock))
    /\ op' = [NoOp EXCEPT !.name = "record_outcome", !.solution_id = sid,
                          !.success = success, !.before = DB, !.result = "returned"]

\* await intelligence.identify_patterns(session_id); pattern is what the
\* oracle returns
CallIdentifyPatterns(session_id, pattern) ==
    /\ edge_count(graph, "EXHIBITS_PATTERN", session_id, pattern.name) < MaxDetections
    /\ StoreCommit(update_pattern_graph(DB, pattern, session_id))
    /\ op' = [NoOp EXCEPT !.name = "identify_patterns", !.session_id = session_id,
                          !.pattern = pattern, !.before = DB, !.result = "returned"]

NextStore ==
    \/ \E e \in StoredEvents : CallStoreEvent(e)
    \/ \E e \in StoredEvents, solution \in Solutions : CallStoreSolution(e, solution)
    \/ \E e \in StoredEvents, success \in BOOLEAN :
          CallRecordOutcome(solution_id(e), success)

SpecStore == InitStore /\ [][NextStore]_vars

\* identify_patterns called on the same stores
NextPatterns ==
    \E session_id \in SessionIds, pattern \in Patterns :
        CallIdentifyPatterns(session_id, pattern)

SpecPatterns == InitStore /\ [][NextPatterns]_vars

\* ------------------------------------------------ the recent actions alone
\* The recent_actions that analyze_error computes for a session, over tables
\* of at most MaxHistory events of two sessions: the k-th event stored has
\* the timestamp k; the first m of them belong to one session and the others
\* to the other, or the sessions alternate.
MaxHistory == 22

InitRecent ==
    /\ active_connections = ConnectionManager.ac
    /\ session_connections = ConnectionManager.sc
    /\ connection_metadata = ConnectionManager.md
    /\ task = [c \in Clients |-> NewTask]
    /\ received = 0
    /\ persisted = [c \in Clients |-> <<>>]
    /\ removed_by_send = {}
    /\ obs = NoObs
    /\ clock = 0
    /\ loop_task = {}
    /\ calls = [p \in Producers |-> NoCall]
    /\ stream = NoStore.stream
    /\ graph = NoStore.graph
    /\ solutions = NoStore.solutions
    /\ finished = {}
    /\ similar = NoSimilar
    /\ op = NoOp
    /\ \E n \in 0..MaxHistory, m \in 0..MaxHistory, alternate \in BOOLEAN :
         /\ m <= n
         /\ alternate => m = 0
         /\ dev_events =
              [id \in {<<k, "log">> : k \in 1..n} |->
                  [type |-> "log", timestamp |-> id[1], embedding |-> 0,
                   session_id |-> IF (alternate /\ id[1] % 2 = 0)
                                     \/ (~alternate /\ id[1] <= m)
                                  THEN "s1" ELSE "s2"]]

\* analyze_error up to the ErrorContext it builds, for an event of session_id
RecentActions(session_id) ==
    /\ op.name = "none"
    /\ LET r == recent_actions(dev_events, session_id)
       IN  op' = [NoOp EXCEPT !.name = "recent_actions", !.session_id = session_id,
                             !.result = IF r.error = "none" THEN "returned" ELSE r.error,
                             !.rows = r.actions]
    /\ UNCHANGED <<clock, loop_task, calls, stream, dev_events, graph, solutions,
                   finished, similar>>
    /\ UNCHANGED servervars

NextRecent == \E session_id \in SessionIds : RecentActions(session_id)

SpecRecent == InitRecent /\ [][NextRecent]_vars

\* ------------------------------------------------ the changelog entry alone
\* to_changelog_entry for every content payload of at most MaxKeys items,
\* built from the submitted content with its keys in any order.
MaxKeys == 3
ContentKeys == 1..MaxKeys
ContentValues == {"x", "y"}

Contents ==
    {c \in UNION {[1..n -> ContentKeys \X ContentValues] : n \in 0..MaxKeys} :
        \A i, j \in DOMAIN c : i # j => c[i][1] # c[j][1]}

\* the same keys with the same values
SameMapping(c, d) == {c[i] : i \in DOMAIN c} = {d[i] : i \in DOMAIN d}

InitFingerprint ==
    /\ active_connections = ConnectionManager.ac
    /\ session_connections = ConnectionManager.sc
    /\ connection_metadata = ConnectionManager.md
    /\ task = [c \in Clients |-> NewTask]
    /\ received = 0
    /\ persisted = [c \in Clients |-> <<>>]
    /\ removed_by_send = {}
    /\ obs = NoObs
    /\ clock = 0
    /\ loop_task = {}
    /\ calls = [p \in Producers |-> NoCall]
    /\ stream = NoStore.stream
    /\ dev_events = NoStore.dev_events
    /\ graph = NoStore.graph
    /\ solutions = NoStore.solutions
    /\ finished = {}
    /\ similar = NoSimilar
    /\ \E c \in Contents : op = [NoOp EXCEPT !.submitted = c]

\* event.to_changelog_entry() for an event whose content has the items of the
\* submitted content, in the order given
ToChangelogEntry(content) ==
    /\ op.name = "none"
    /\ SameMapping(content, op.submitted)
    /\ op' = [op EXCEPT !.name = "to_changelog_entry", !.content = content,
                        !.hash = fingerprint(content), !.result = "returned"]
    /\ UNCHANGED <<clock, loop_task, calls, stream, dev_events, graph, solutions,
                   finished, similar>>
    /\ UNCHANGED servervars

NextFingerprint == \E content \in Contents : ToChangelogEntry(content)

SpecFingerprint == InitFingerprint /\ [][NextFingerprint]_vars

\* ------------------------------------------------------------ properties
Reg == [ac |-> active_connections, sc |-> session_connections,
        md |-> connection_metadata]

Lex(a, b) == a[1] < b[1] \/ (a[1] = b[1] /\ a[2] < b[2])

\* what a call left of connection x in the registry
Same(before, after, x) ==
    /\ (x \in DOMAIN before.ac) = (x \in DOMAIN after.ac)
    /\ (x \in DOMAIN before.md) = (x \in DOMAIN after.md)
    /\ MetaSession(before.md, x) = MetaSession(after.md, x)
    /\ SessionsOf(before, x) = SessionsOf(after, x)

\* C1: a broadcast to a session of two or more members, one of which has a
\* failing socket, returns without raising, delivers to every member whose
\* send succeeds, and leaves the failing member neither in the membership
\* set nor in the handle map.
C1_BroadcastSurvivesFailingMember ==
    \A b \in obs.bc :
        (Cardinality(b.snapshot) >= 2 /\ b.failed # {}) =>
            /\ b.result = "returned"
            /\ (b.stayed \ b.failed) \subseteq b.delivered
            /\ b.residue = {}

\* C2: a broadcast that was suspended in a send never fails, whatever happened
\* to the membership meanwhile, and every connection that was a member when
\* it started and is still a live member got its delivery attempt.
C2_BroadcastIteratesSnapshot ==
    \A b \in obs.bc :
        (b.known /\ ~b.sync) =>
            /\ b.result = "returned"
            /\ b.stayed \subseteq b.attempted

\* C3: connect() of a fresh id followed immediately by disconnect() of that id
\* leaves the handle map, the membership map and the metadata map as they
\* were before the connect.
C3_ConnectDisconnectLeavesNoResidue ==
    \A r \in obs.cd : r.after = r.before

C3_Witness ==
    \E r \in obs.cd : DOMAIN r.before.ac # {} /\ DOMAIN r.before.md # {}

\* C4: disconnect(c) for an id without a live handle changes none of the
\* three maps (so a second disconnect of an id does nothing).
C4_DisconnectWithoutHandleIsNoop ==
    \A d \in obs.disc : ~d.live => d.after = d.before

C4_Witness ==
    \E d \in obs.disc : ~d.live /\ d.client \in DOMAIN d.before.md

\* C5: after disconnect(c) of a live connection, c has no handle, no metadata
\* and is in no session's membership set.
C5_DisconnectRemovesEverywhere ==
    \A d \in obs.disc :
        d.live => /\ d.client \notin DOMAIN d.after.ac
                  /\ d.client \notin DOMAIN d.after.md
                  /\ SessionsOf(d.after, d.client) = {}

\* C6: every connection id is in at most one session's membership set.
C6_AtMostOneSession ==
    \A c \in Clients : Cardinality(SessionsOf(Reg, c)) <= 1

\* C7: a broadcast to a session id the registry does not know, or whose
\* membership set is empty, sends nothing, does not raise and leaves the
\* three maps as they were.
C7_BroadcastToNobodyIsNoop ==
    \A b \in obs.bc :
        (~b.known \/ b.snapshot = {}) =>
            /\ b.attempted = {}
            /\ b.delivered = {}
            /\ b.result = "returned"
            /\ b.sync
            /\ b.after = b.before

C7_Witness ==
    \E b \in obs.bc : ~b.known /\ DOMAIN b.before.md # {}

C10_NoMessageAfterSendFailure ==
    \A c \in obs.recv : c \notin removed_by_send

\* ---- the ingest pipeline
AnalyzerInvoked(call) == \E i \in DOMAIN call.trace : call.trace[i] \in AnalyzerCalls

Returned(call) == call.result \in {"stored", "solution"}

\* a call for an event of a known type and with a session id, so that no
\* store refuses the event itself
WellFormed(call) ==
    /\ raw_type(call.raw) \in EventType
    /\ call.raw.session_id \in SessionIds
    /\ call.event.id \notin DOMAIN call.before.dev_events

\* the persist records of an event: stream entry, relational row, Event and
\* Session nodes, belongs-to edge
Committed(e) ==
    /\ \E i \in DOMAIN stream : stream[i] = e.id
    /\ e.id \in DOMAIN dev_events
    /\ <<"Event", e.id>> \in DOMAIN graph.nodes
    /\ <<"Session", e.session_id>> \in DOMAIN graph.nodes
    /\ edge_count(graph, "BELONGS_TO", e.id, e.session_id) > 0

\* C11: while a call is inside the embedding computation or the oracle call,
\* a producer of another session is not blocked: it can have its own event
\* taken in and processed.
C11_UnrelatedSessionsNotBlocked ==
    \A a \in Producers :
        calls[a].pc \in SyncCalls =>
            \A b \in Producers \ {a} :
                calls[b].pc = "idle" =>
                    \E s \in SessionIds \ {calls[a].event.session_id} :
                        ENABLED CallIngest(b, "log", s, {})

\* C12: an ingest whose type is not a known event type ends with the
\* validation error, without any collaborator having been called (no
\* embedding, no stream, relational or graph write, no analysis) and with the
\* stores as they were.
C12_UnknownTypeRejectedBeforePersist ==
    \A f \in finished :
        raw_type(f.call.raw) \notin EventType =>
            /\ f.call.result = "ValueError"
            /\ f.call.trace = <<>>
            /\ DB = f.call.before

C12_Witness ==
    \E f \in finished :
        /\ f.call.raw.type = "bogus"
        /\ f.call.raw.session_id \in SessionIds
        /\ f.call.plan = {}

\* C13: an ingest whose session id is missing or empty ends with the
\* validation error before persist is entered: no collaborator is called.
C13_MissingSessionRejectedBeforePersist ==
    \A f \in finished :
        f.call.raw.session_id \in {None, Empty} =>
            /\ f.call.result = "ValueError"
            /\ f.call.trace = <<>>

\* C14: whenever the relational insert can succeed (the relational store
\* works and does not refuse the event), persist returns to its caller and
\* the event is in the relational facet, whatever the embedder, the stream
\* and the graph store do.
C14_PersistStepsIndependent ==
    \A f \in finished :
        (WellFormed(f.call) /\ "relational" \notin f.call.plan) =>
            /\ f.call.stored
            /\ f.call.event.id \in DOMAIN dev_events

C17_OracleFailureKeepsStoredStatus ==
    \A f \in finished :
        (WellFormed(f.call) /\ f.call.event.type = "error"
         /\ f.call.plan = {"oracle"}) =>
            /\ f.call.result = "stored"
            /\ ~f.call.solved

C19_SimilarityFailureDegrades ==
    \A f \in finished :
        (WellFormed(f.call) /\ f.call.event.type = "error"
         /\ f.call.plan = {"similar"}) =>
            /\ \E i \in DOMAIN f.call.trace : f.call.trace[i] = "oracle"
            /\ f.call.solved

\* ---- the similarity query
Eligible ==
    {id \in DOMAIN dev_events : dev_events[id].type = "error" /\ id # similar.event.id}

\* C20: the similarity query returns only stored events of type error, never
\* the querying event, no event twice, at most 5 entries and fewer only if
\* there are no more candidates, in order of non-increasing similarity.
C20_SimilarTopFive ==
    similar.asked =>
        LET r == similar.rows
        IN  /\ \A i \in DOMAIN r : /\ r[i].id \in DOMAIN dev_events
                                   /\ dev_events[r[i].id].type = "error"
                                   /\ r[i].id # similar.event.id
            /\ \A i, j \in DOMAIN r : i < j => /\ r[i].id # r[j].id
                                               /\ r[i].similarity >= r[j].similarity
            /\ Len(r) <= 5
            /\ Len(r) < 5 => Len(r) = Cardinality(Eligible)

\* ---- more of the ingest pipeline
\* C23: an ingest of an event whose type is not error, with every
\* collaborator working, returns the response with status "stored" (the
\* event id and no solution), and the oracle is not called.
C23_NonErrorReturnsStored ==
    \A f \in finished :
        (WellFormed(f.call) /\ f.call.event.type # "error" /\ f.call.plan = {}) =>
            /\ f.call.result = "stored"
            /\ ~f.call.solved
            /\ \A i \in DOMAIN f.call.trace : f.call.trace[i] # "oracle"

\* C26: an event that ingest_event takes in (its type is a known one) gets
\* an id that the event taken in before it does not have, also when both
\* are of the same type and no clock reading lies between them.
C26_EventIdsUnique ==
    [][\A f \in finished : \A p \in Producers :
          (raw_type(f.call.raw) \in EventType
           /\ calls[p].pc = "idle" /\ calls'[p].pc = "encode") =>
              calls'[p].event.id # f.call.event.id]_vars

\* ---- the connection protocol
\* C27: an init message with session id s makes the sending connection a
\* member of s and makes its metadata record s, and the server then calls
\* send_text with an init_ack for that connection and for no other.
C27_InitBindsAndAcks ==
    \A r \in obs.init :
        r.session_id \in SessionIds =>
            /\ r.session_id \in DOMAIN r.after.sc
            /\ r.client \in r.after.sc[r.session_id]
            /\ MetaSession(r.after.md, r.client) = r.session_id
            /\ r.acks = {r.client}

\* ---- the stores called directly
\* the Outcome nodes linked from a Solution
LinkedOutcomes(g, sid) ==
    {k \in OutcomeNodes(g) : edge_count(g, "RESULTED_IN", sid, k[2]) > 0}

\* C21: after record_outcome for a Solution that exists (row and node), the
\* stored success rate is the arithmetic mean of the success flags of all
\* the Outcomes linked from it: rate = successes / outcomes.
C21_SuccessRateIsMean ==
    (/\ op.name = "record_outcome"
     /\ op.solution_id \in DOMAIN op.before.solutions
     /\ <<"Solution", op.solution_id>> \in DOMAIN op.before.graph.nodes) =>
        LET O == LinkedOutcomes(graph, op.solution_id)
            S == {k \in O : graph.nodes[k].success}
            rate == solutions[op.solution_id].success_rate
        IN  /\ ~rate.null
            /\ rate.num * Cardinality(O) = rate.den * Cardinality(S)

\* C22: storing a solution attempt for an event that has a Solution already
\* adds one to the usage counter of that Solution and leaves its stored fix
\* code, explanation and confidence as they were, in the row and in the node.
C22_RepeatedAttemptKeepsSolution ==
    (/\ op.name = "store_solution_attempt"
     /\ op.solution_id \in DOMAIN op.before.solutions) =>
        LET old == op.before.solutions[op.solution_id]
            new == solutions[op.solution_id]
            node == <<"Solution", op.solution_id>>
        IN  /\ new.usage_count = old.usage_count + 1
            /\ new.solution_code = old.solution_code
            /\ new.explanation = old.explanation
            /\ new.dspy_history.confidence = old.dspy_history.confidence
            /\ node \in DOMAIN op.before.graph.nodes =>
                  graph.nodes[node] = op.before.graph.nodes[node]

\* C25: every stored solution has a confidence within [0, 1] (0..10 tenths),
\* in its row and in its node, whatever the oracle returned.
C25_ConfidenceInUnitInterval ==
    /\ \A sid \in DOMAIN solutions :
          solutions[sid].dspy_history.confidence \in 0..10
    /\ \A k \in DOMAIN graph.nodes :
          k[1] = "Solution" => graph.nodes[k].confidence \in 0..10

\* C28: store_event for an event that is persisted already returns, and
\* leaves the relational facet and the graph facet as they were.
C28_RepersistIsIdempotent ==
    (/\ op.name = "store_event"
     /\ op.event.id \in DOMAIN op.before.dev_events) =>
        /\ op.result = "returned"
        /\ dev_events = op.before.dev_events
        /\ graph = op.before.graph

\* C30: a pattern detection in a session adds one exhibits edge from that
\* session to the one Pattern node of the detected name, which then carries
\* the type and the description of this detection (so n detections of one
\* name leave n edges and the last type and description).
C30_DetectionsAddEdges ==
    op.name = "identify_patterns" =>
        /\ edge_count(graph, "EXHIBITS_PATTERN", op.session_id, op.pattern.name)
             = edge_count(op.before.graph, "EXHIBITS_PATTERN", op.session_id,
                          op.pattern.name) + 1
        /\ <<"Pattern", op.pattern.name>> \in DOMAIN graph.nodes
        /\ graph.nodes[<<"Pattern", op.pattern.name>>] =
              [type |-> op.pattern.type, description |-> op.pattern.description]

\* ---- the recent actions
\* the events of a session with fewer than n events of the session after them
MostRecent(session_id, n) ==
    LET ids == {id \in DOMAIN dev_events : dev_events[id].session_id = session_id}
    IN  {id \in ids :
            Cardinality({j \in ids : dev_events[j].timestamp > dev_events[id].timestamp}) < n}

\* C29: the recent actions that analyze_error hands to the oracle are the
\* messages of the 10 most recent events of the session (all of them if
\* there are fewer), each once.
C29_RecentActionsAreTenMostRecent ==
    op.name = "recent_actions" =>
        /\ op.result = "returned"
        /\ {op.rows[i] : i \in DOMAIN op.rows} = MostRecent(op.session_id, 10)
        /\ Len(op.rows) = Cardinality(MostRecent(op.session_id, 10))

\* ---- the changelog entry
\* C24: the hash of a changelog entry is the fingerprint of the submitted
\* content, whatever the order of the keys of the content it is built from:
\* payloads with the same keys and values have the same fingerprint.
C24_FingerprintIgnoresKeyOrder ==
    op.name = "to_changelog_entry" =>
        /\ op.hash = fingerprint(op.submitted)
        /\ \A c \in Contents : SameMapping(c, op.content) => fingerprint(c) = op.hash

C24_Witness ==
    /\ op.name = "to_changelog_entry"
    /\ Len(op.content) = MaxKeys
    /\ op.content # op.submitted
    /\ op.content # json_dumps_sort_keys(op.content)

\* ---- solutions and outcomes in the graph
\* C31: an Event has at most one solved_by edge, also after several solution
\* attempts for it.
C31_AtMostOneSolvedBy ==
    \A edge \in DOMAIN graph.edges :
        edge[1] = "SOLVED_BY" =>
            /\ graph.edges[edge] <= 1
            /\ \A other \in DOMAIN graph.edges :
                  (other[1] = "SOLVED_BY" /\ other[2] = edge[2]) => other = edge

\* the nodes and edges of the Outcomes
Outcomes(g) ==
    [nodes |-> [k \in OutcomeNodes(g) |-> g.nodes[k]],
     edges |-> [e \in {e \in DOMAIN g.edges : e[1] = "RESULTED_IN"} |-> g.edges[e]]]

C32_MembersAndMetadataHaveHandles ==
    /\ DOMAIN connection_metadata \subseteq DOMAIN active_connections
    /\ \A s \in DOMAIN session_connections :
          session_connections[s] \subseteq DOMAIN active_connections

\* C36: an event, bulk or query message of a connection that is bound to no
\* session changes nothing in the registry, hands nothing to ingest_event or
\* get_patterns, starts no send, and leaves the task at its next receive.
C36_UnboundMessageIsIgnored ==
    \A m \in obs.msg :
        m.session_id = None =>
            /\ Reg = m.before
            /\ task[m.client] = [NewTask EXCEPT !.pc = "receive"]

C36_Witness ==
    \E m \in obs.msg :
        /\ m.session_id = None
        /\ m.type = "events"
        /\ m.client \in removed_by_send
        /\ m.client \notin DOMAIN connection_metadata

\* C33: the id process_event has for the event of its solution and
\* event_processed messages (eventId) is the id ingest_event gave the event
\* it was handed.
C33_EventIdIsIngestedId ==
    \A r \in obs.ids : r.own = r.ingested

\* ---- process_event and process_bulk_events
\* C34: when process_event has ended for an event, every connection that
\* was a live member of the session from its start to its end has got
\* exactly one of event_processed and error; a solution broadcast is made
\* for error events only, and before anything else.
C34_OneTerminalNotification ==
    \A e \in obs.ev :
        /\ \A x \in e.stayed :
              Cardinality({k \in {"event_processed", "error"} :
                              <<x, k>> \in e.terminal}) = 1
        /\ \A i \in DOMAIN e.sent :
              e.sent[i] = "solution" => (e.type = "error" /\ i = 1)

\* C35: no process_event call of a connection that has its handle ends by
\* raising (so the loop of process_bulk_events goes on and the task of the
\* connection lives), and an event of a valid type that comes after a
\* failed one is confirmed with event_processed.
C35_BulkGoesOnAfterFailure ==
    \A e \in obs.ev :
        /\ e.live => (e.result = "returned" /\ task[e.client].pc # "done")
        /\ (e.earlier_failed /\ event_type(e.type) # "ValueError") =>
              \E i \in DOMAIN e.sent : e.sent[i] = "event_processed"

\* ---- the end of a connection's task
\* C37: a connection whose task has ended, on /ws or on /ws/monitor, has no
\* handle in the handle map.
C37_FinishedTaskHasNoHandle ==
    \A c \in Clients : task[c].pc = "done" => c \notin DOMAIN active_connections

TypeOK ==
    /\ DOMAIN active_connections \subseteq Clients
    /\ DOMAIN session_connections \subseteq SessionIds
    /\ DOMAIN connection_metadata \subseteq Clients
    /\ \A c \in Clients : task[c].pc \in Suspended

====
